---- MODULE Spec2Model ----
(***************************************************************************)
(* littleworkers.Pool: a bounded-concurrency shell command runner.         *)
(*                                                                         *)
(* The model follows src/littleworkers.py statement by statement.  The     *)
(* scheduler is the single control thread of Pool.run; the spawned OS      *)
(* processes run concurrently with it and are observed only through        *)
(* Popen.poll().  The module is Python 2 code (dict.keys() returns a list, *)
(* None compares below every integer) and is modelled with those           *)
(* semantics.                                                              *)
(***************************************************************************)
EXTENDS Integers, Sequences, FiniteSets, TLC

VARIABLES
    pc,          \* control position: new, raised, ready, loop, reap, wait, done, aborted
    exc,         \* exception that left the constructor or run ("none" if none)
    ctorArg,     \* the workers argument given to Pool.__init__
    workers,     \* self.workers
    debug,       \* self.debug
    pool,        \* self.pool: the pids that key the dict
    commands,    \* self.commands
    callback,    \* self.callback: "None" or "cb"
    progressbar, \* self.progressbar: "None" or "bar"; what the bar is told is in log
    pbArg,       \* run's progressbar argument (True or False)
    keep_running,\* run's keep_running
    procs,       \* the process handles of self.pool: pid -> [idx, exited, returncode]
    snapshot,    \* keys of self.pool the for loop of run has still to visit
    submitted,   \* history: self.commands when the current run entered its loop
    head,        \* history: number of commands the current run has dequeued
    log,         \* history: events of the current run
    reused       \* history: the pool has finished a run before

vars == <<pc, exc, ctorArg, workers, debug, pool, commands, callback,
          progressbar, pbArg, keep_running, procs, snapshot, submitted, head, log, reused>>

(* ------------------------------ bounds --------------------------------- *)
MaxCmds == 3
MaxWorkers == 2

(* ------------------------------ inputs --------------------------------- *)
\* "" stands for every falsy command ('' or []), "cmd" for every other one.
Commands == {"", "cmd"}

RECURSIVE SeqsUpTo(_)
SeqsUpTo(n) ==
    IF n = 0 THEN {<<>>}
    ELSE LET shorter == SeqsUpTo(n - 1)
         IN  shorter \cup {Append(s, c) : s \in {t \in shorter : Len(t) = n - 1}, c \in Commands}

CommandLists == SeqsUpTo(MaxCmds)

\* Popen.returncode of an exited process: killed by a signal, success, failure.
ExitCodes == {-9, 0, 1}

WorkerArgs == (-1) .. MaxWorkers

(* --------------------------- pure helpers ------------------------------ *)
\* A constructor that lets a pool of no workers through.
EnoughWorkers_NoWorkers(w) == ~(w < 0)

\* Pool.__init__: the test that lets construction go on.
EnoughWorkers(w) == ~(w < 1)

\* Pool.command_count
command_count(cmds) == Len(cmds)

Min(a, b) == IF a <= b THEN a ELSE b

\* An admission test that forgets the queue length.
AdmissionGuard_WorkersOnly(poolSize, count, w) == poolSize <= w

\* An admission test that lets one more process in.
AdmissionGuard_OneMore(poolSize, count, w) == poolSize <= Min(count, w) + 1

\* Pool.run: the admission test in front of next_command.
AdmissionGuard(poolSize, count, w) == poolSize <= Min(count, w)

\* A next_command that raises on an empty queue whatever self.debug is.
next_command_Strict(cmds, dbg) ==
    IF cmds = <<>>
    THEN [raised |-> TRUE, command |-> "None", rest |-> cmds]
    ELSE [raised |-> FALSE, command |-> Head(cmds), rest |-> Tail(cmds)]

\* Pool.next_command on queue cmds with self.debug = dbg: what pop(0) gives
\* (None when the IndexError is swallowed), the queue it leaves and whether
\* the IndexError leaves the method.
next_command(cmds, dbg) ==
    IF cmds = <<>>
    THEN [raised |-> dbg, command |-> "None", rest |-> cmds]
    ELSE [raised |-> FALSE, command |-> Head(cmds), rest |-> Tail(cmds)]

\* Pool.run: "not command"; None, '' and [] are falsy.
Falsy(command) == command \in {"None", ""}

\* A remove_from_pool that leaves the entry in the dict.
remove_from_pool_Keeps(pl, pid, dbg) ==
    [raised |-> pid \notin pl /\ dbg, pool |-> pl]

\* Pool.remove_from_pool(pid) on pool pl with self.debug = dbg: the pool it
\* leaves and whether the KeyError leaves the method.
remove_from_pool(pl, pid, dbg) ==
    [raised |-> pid \notin pl /\ dbg, pool |-> pl \ {pid}]

\* An iteration by offset over the live keys: a removal moves the next key
\* into the slot just visited, and that key is skipped.
RestOfKeys_LiveOffsets(snap, pid, pl) ==
    IF pid \notin pl /\ snap \ {pid} # {}
    THEN snap \ {pid, CHOOSE q \in snap \ {pid} : TRUE}
    ELSE snap \ {pid}

\* Pool.run: "for pid in self.pool.keys()".  keys() is a list made before the
\* first iteration, so the keys still to visit after pid do not depend on pl,
\* the pool the body has left.
RestOfKeys(snap, pid, pl) == snap \ {pid}

\* A loop body that swallows the exception and goes on.
Uncaught_Swallowed(resume) == resume

\* Pool.run has no try statement: an exception raised in the loop body leaves
\* run, wherever the body would have gone on (resume) had it been swallowed.
Uncaught(resume) == "aborted"

\* A poll test that takes every exit for a normal one.
PollFinished_AnyExit(p) == p.exited

\* Pool.run: "self.pool[pid].poll() >= 0".  poll() is None while the process
\* runs, and None >= 0 is False in Python 2.
PollFinished(p) == p.exited /\ p.returncode >= 0

\* Pool.run: "keep_running = self.command_count() or len(self.pool) > 0".
KeepRunning(cmds, pl) == command_count(cmds) # 0 \/ Cardinality(pl) > 0

\* subprocess.Popen: the OS gives the new process a pid no tracked handle has.
FreshPid(used) == CHOOSE p \in 1 .. (Cardinality(used) + 1) : p \notin used

Event(e, i, p) == [ev |-> e, idx |-> i, pid |-> p]

\* The caller holds the pool and no run is going on.
Idle == pc = "ready"

(* ------------------------------- Init ---------------------------------- *)
Init ==
    /\ pc = "new"
    /\ exc = "none"
    /\ ctorArg = 0
    /\ workers = 0
    /\ debug = FALSE
    /\ pool = {}
    /\ commands = <<>>
    /\ callback = "None"
    /\ progressbar = "None"
    /\ pbArg = FALSE
    /\ keep_running = TRUE
    /\ procs = <<>>
    /\ snapshot = {}
    /\ submitted = <<>>
    /\ head = 0
    /\ log = <<>>
    /\ reused = FALSE

(* ------------------------------ actions -------------------------------- *)
\* Pool.__init__(workers=w, debug=d)
Construct(w, d) ==
    /\ pc = "new"
    /\ ctorArg' = w
    /\ IF EnoughWorkers(w)
       THEN /\ workers' = w
            /\ pool' = {}
            /\ commands' = <<>>
            /\ callback' = "None"
            /\ debug' = d
            /\ progressbar' = "None"
            /\ pc' = "ready"
            /\ exc' = "none"
       ELSE /\ pc' = "raised"
            /\ exc' = "NotEnoughWorkers"
            /\ UNCHANGED <<workers, pool, commands, callback, debug, progressbar>>
    /\ UNCHANGED <<pbArg, keep_running, procs, snapshot, submitted, head, log, reused>>

\* The caller of a run that returned goes on to use the same pool again; the
\* history of the finished run is dropped here.  A pool whose run raised is
\* not used again.
Reuse ==
    /\ pc = "done"
    /\ reused' = TRUE
    /\ pc' = "ready"
    /\ pbArg' = FALSE
    /\ keep_running' = TRUE
    /\ submitted' = <<>>
    /\ head' = 0
    /\ log' = <<>>
    /\ UNCHANGED <<exc, ctorArg, workers, debug, pool, commands, callback, progressbar,
                   procs, snapshot>>

\* Pool.prepare_commands(c), called outside run
PrepareCommands(c) ==
    /\ Idle
    /\ commands' = c
    /\ UNCHANGED <<pc, exc, ctorArg, workers, debug, pool, callback, progressbar,
                   pbArg, keep_running, procs, snapshot, submitted, head, log, reused>>

\* Pool.set_callback(cb), called outside run
SetCallback(cb) ==
    /\ Idle
    /\ callback' = cb
    /\ UNCHANGED <<pc, exc, ctorArg, workers, debug, pool, commands, progressbar,
                   pbArg, keep_running, procs, snapshot, submitted, head, log, reused>>

\* Pool.run(commands, callback, progressbar) up to the first test of the loop.
\* given = FALSE is commands=None; pb is True or False.
Run(c, given, cb, pb) ==
    /\ Idle
    /\ commands' = IF given THEN c ELSE commands
    /\ callback' = IF cb # "None" THEN cb ELSE callback
    /\ progressbar' = IF pb THEN "bar" ELSE progressbar
    /\ pbArg' = pb
    /\ keep_running' = TRUE
    /\ submitted' = commands'
    /\ head' = 0
    /\ log' = IF pb
              THEN <<Event("init", command_count(commands'), 0)>>  \* init_progressbar
              ELSE <<>>
    /\ exc' = "none"
    /\ snapshot' = {}
    /\ pc' = "loop"
    /\ UNCHANGED <<ctorArg, workers, debug, pool, procs, reused>>

\* The loop body from inspect_pool to the start of the for loop, or to the
\* busy_wait in front of "continue".
Admit ==
    /\ pc = "loop"
    /\ IF AdmissionGuard(Cardinality(pool), command_count(commands), workers)
       THEN LET nc == next_command(commands, debug)
                nextPid == FreshPid(DOMAIN procs)
                idx == head + 1
            IN  IF nc.raised
                THEN \* next_command: the IndexError of pop(0) is raised again
                     /\ pc' = Uncaught("wait")
                     /\ exc' = "IndexError"
                     /\ UNCHANGED <<pool, commands, procs, snapshot, head, log>>
                ELSE /\ commands' = nc.rest
                     /\ head' = head + (Len(commands) - Len(nc.rest))
                     /\ IF Falsy(nc.command)
                        THEN \* busy_wait, continue
                             /\ log' = IF nc.command = "None"
                                       THEN log
                                       ELSE Append(log, Event("drop", idx, 0))
                             /\ pc' = "wait"
                             /\ UNCHANGED <<exc, pool, procs, snapshot>>
                        ELSE \/ \* create_process: subprocess.Popen raises
                                /\ pc' = Uncaught("wait")
                                /\ exc' = "OSError"
                                /\ log' = Append(log, Event("spawnfail", idx, 0))
                                /\ UNCHANGED <<pool, procs, snapshot>>
                             \/ \* create_process, add_to_pool
                                /\ procs' = [p \in DOMAIN procs \cup {nextPid} |->
                                               IF p = nextPid
                                               THEN [idx |-> idx, exited |-> FALSE,
                                                     returncode |-> 0]
                                               ELSE procs[p]]
                                /\ pool' = pool \cup {nextPid}
                                /\ log' = Append(log, Event("spawn", idx, nextPid))
                                /\ snapshot' = pool'
                                /\ pc' = "reap"
                                /\ UNCHANGED exc
       ELSE /\ snapshot' = pool
            /\ pc' = "reap"
            /\ UNCHANGED <<exc, pool, commands, procs, head, log>>
    /\ UNCHANGED <<ctorArg, workers, debug, callback, progressbar, pbArg, keep_running,
                   submitted, reused>>

\* The OS: a running process exits with status rc.
ProcExit(pid, rc) ==
    /\ pid \in DOMAIN procs
    /\ ~procs[pid].exited
    /\ procs' = [procs EXCEPT ![pid].exited = TRUE, ![pid].returncode = rc]
    /\ UNCHANGED <<pc, exc, ctorArg, workers, debug, pool, commands, callback,
                   progressbar, pbArg, keep_running, snapshot, submitted, head, log,
                   reused>>

\* One iteration of "for pid in self.pool.keys()".  keys() is a list built
\* when the loop starts; its order is the dict's, which is arbitrary.
Poll(pid) ==
    /\ pc = "reap"
    /\ pid \in snapshot
    /\ IF PollFinished(procs[pid])
       THEN LET called == IF callback # "None"
                          THEN Append(log, Event("callback", procs[pid].idx, pid))
                          ELSE log
            IN  \/ \* self.callback(self.pool[pid]) raises
                   /\ callback # "None"
                   /\ log' = called
                   /\ pc' = Uncaught("reap")
                   /\ exc' = "CallbackError"
                   /\ UNCHANGED <<pool, procs>>
                \/ \* callback, progressbar.update(), remove_from_pool(pid)
                   LET advanced == IF pbArg
                                   THEN Append(called, Event("advance", procs[pid].idx, pid))
                                   ELSE called
                       rm == remove_from_pool(pool, pid, debug)
                   IN  IF rm.raised
                       THEN /\ log' = advanced
                            /\ pc' = Uncaught("reap")
                            /\ exc' = "KeyError"
                            /\ UNCHANGED <<pool, procs>>
                       ELSE /\ log' = Append(advanced, Event("remove", procs[pid].idx, pid))
                            /\ pool' = rm.pool
                            /\ procs' = [p \in rm.pool |-> procs[p]]
                            /\ UNCHANGED <<pc, exc>>
       ELSE UNCHANGED <<pc, exc, pool, procs, log>>
    /\ snapshot' = RestOfKeys(snapshot, pid, pool')
    /\ UNCHANGED <<ctorArg, workers, debug, commands, callback, progressbar, pbArg,
                   keep_running, submitted, head, reused>>

\* The end of the for loop: keep_running is set and busy_wait is entered.
EndOfPass ==
    /\ pc = "reap"
    /\ snapshot = {}
    /\ keep_running' = KeepRunning(commands, pool)
    /\ pc' = "wait"
    /\ UNCHANGED <<exc, ctorArg, workers, debug, pool, commands, callback, progressbar,
                   pbArg, procs, snapshot, submitted, head, log, reused>>

\* Pool.busy_wait returns and "while keep_running" is tested; when the loop
\* is left the progress bar is closed and run returns.
busy_wait ==
    /\ pc = "wait"
    /\ IF keep_running
       THEN /\ pc' = "loop"
            /\ UNCHANGED log
       ELSE /\ pc' = "done"
            /\ log' = IF pbArg
                      THEN Append(log, Event("finalize", 0, 0))  \* progressbar.__exit__
                      ELSE log
    /\ UNCHANGED <<exc, ctorArg, workers, debug, pool, commands, callback, progressbar,
                   pbArg, keep_running, procs, snapshot, submitted, head, reused>>

Next ==
    \/ \E w \in WorkerArgs, d \in BOOLEAN : Construct(w, d)
    \/ \E c \in CommandLists : PrepareCommands(c)
    \/ \E cb \in {"None", "cb"} : SetCallback(cb)
    \/ \E c \in CommandLists, given \in BOOLEAN, cb \in {"None", "cb"}, pb \in BOOLEAN :
          Run(c, given, cb, pb)
    \/ Reuse
    \/ Admit
    \/ \E pid \in DOMAIN procs : Poll(pid)
    \/ EndOfPass
    \/ busy_wait
    \/ \E pid \in DOMAIN procs, rc \in ExitCodes : ProcExit(pid, rc)

Spec == Init /\ [][Next]_vars

\* The pids a run can hand out.
Pids == 1 .. MaxCmds

\* The scheduler thread keeps running and every process exits in the end.
FairSpec ==
    /\ Spec
    /\ WF_vars(Admit)
    /\ WF_vars(EndOfPass)
    /\ WF_vars(busy_wait)
    /\ \A pid \in Pids : WF_vars(Poll(pid))
    /\ \A pid \in Pids : WF_vars(\E rc \in ExitCodes : ProcExit(pid, rc))

TypeOK ==
    /\ pc \in {"new", "raised", "ready", "loop", "reap", "wait", "done", "aborted"}
    /\ pool = DOMAIN procs
    /\ snapshot \subseteq pool
    /\ DOMAIN procs \subseteq Pids

(* ------------------------- reading the history ------------------------- *)
EventsOf(kind) == SelectSeq(log, LAMBDA e : e.ev = kind)

IdxOf(events) == [i \in 1 .. Len(events) |-> events[i].idx]

StrictlyIncreasing(s) == \A i \in 1 .. Len(s) - 1 : s[i] < s[i + 1]

Running == pc \in {"loop", "reap", "wait"}

\* M of the current run
M == Len(submitted)

(* ------------------------------- claims -------------------------------- *)

\* C1: in every state of a run the in-flight set holds at most min(N, M)
\* processes.
C1_PoolWithinMinNM ==
    (Running \/ pc \in {"done", "aborted"}) => Cardinality(pool) <= Min(workers, M)

\* C2: when a run with a callback returns, every one of the M commands has been
\* spawned once and reaped once, and the callback has been invoked M times.
C2_EveryCommandReapedOnce ==
    (pc = "done" /\ callback # "None") =>
        /\ IdxOf(EventsOf("spawn")) = [i \in 1 .. M |-> i]
        /\ Len(EventsOf("callback")) = M
        /\ Len(EventsOf("remove")) = M
        /\ \A i \in 1 .. M :
             /\ Cardinality({k \in 1 .. Len(log) : log[k].ev = "callback" /\ log[k].idx = i}) = 1
             /\ Cardinality({k \in 1 .. Len(log) : log[k].ev = "remove" /\ log[k].idx = i}) = 1

\* C3: a run over an empty command list, in non-strict mode, spawns nothing
\* and returns.
C3_EmptyRunReturns ==
    /\ []((Running /\ M = 0 /\ ~debug) => EventsOf("spawn") = <<>>)
    /\ (pc = "loop" /\ M = 0 /\ ~debug) ~> (pc = "done")

\* C4: when every spawned process exits in the end and the loop keeps being
\* scheduled, a run over M >= 1 commands comes to an end.
C4_RunReturns ==
    (pc = "loop" /\ M >= 1) ~> (pc \in {"done", "aborted"})

\* C5: with one worker at most one process is in flight at a time and the
\* callback is invoked in submission order.
C5_OneWorkerFifo ==
    (workers = 1 /\ (Running \/ pc \in {"done", "aborted"})) =>
        /\ Cardinality(pool) <= 1
        /\ StrictlyIncreasing(IdxOf(EventsOf("callback")))

\* C6: a reap pass that polls a terminated process reaps it, whatever its
\* exit status: the callback (if set) gets its handle and the handle leaves
\* the in-flight set.
C6_TerminatedIsReaped ==
    [][\A pid \in Pids :
         (pc = "reap" /\ pid \in snapshot /\ procs[pid].exited /\ pid \notin snapshot')
         => /\ pid \notin pool' \/ pc' = "aborted"
            /\ callback # "None" =>
                 /\ Len(log') > Len(log)
                 /\ log'[Len(log) + 1] = Event("callback", procs[pid].idx, pid)]_vars

\* C7: the k-th spawn of a run is for the k-th command of the list, and a
\* command that left the queue never comes back into it.
C7_SpawnOrderNoRequeue ==
    (Running \/ pc \in {"done", "aborted"}) =>
        /\ LET spawned == IdxOf(EventsOf("spawn"))
           IN  spawned = [k \in 1 .. Len(spawned) |-> k]
        /\ head <= M
        /\ commands = SubSeq(submitted, head + 1, M)

\* C8: a run with progress reporting creates the reporter with total M,
\* advances it once per reaped process right after that process's callback,
\* and has given it M advances and then one finalize call when it returns.
C8_ProgressCounts ==
    (pbArg /\ (Running \/ pc \in {"done", "aborted"})) =>
        /\ Len(log) >= 1 /\ log[1] = Event("init", M, 0)
        /\ Len(EventsOf("init")) = 1
        /\ \A k \in 1 .. Len(log) :
             /\ log[k].ev = "advance" =>
                  /\ k < Len(log)
                  /\ log[k + 1] = Event("remove", log[k].idx, log[k].pid)
                  /\ callback # "None" => log[k - 1] = Event("callback", log[k].idx, log[k].pid)
             /\ (log[k].ev = "remove") => log[k - 1].ev = "advance"
        /\ pc = "done" =>
             /\ Len(EventsOf("advance")) = M
             /\ Len(EventsOf("finalize")) = 1
             /\ log[Len(log)].ev = "finalize"

\* C9: when run returns the in-flight set and the queue are empty; the next
\* run on the same pool starts from exactly its own command list and an
\* empty in-flight set, and spawns and reaps exactly the new commands.
C9_RerunFresh ==
    /\ [](pc = "done" => pool = {} /\ commands = <<>>)
    /\ [][(reused /\ pc = "ready" /\ pc' = "loop") =>
            /\ pool' = {}
            /\ log' \in {<<>>, <<Event("init", Len(commands'), 0)>>}
            /\ submitted' = commands']_vars
    /\ []((reused /\ pc = "done") =>
            /\ IdxOf(EventsOf("spawn")) = [i \in 1 .. M |-> i]
            /\ {e.idx : e \in {log[k] : k \in {j \in 1 .. Len(log) : log[j].ev = "remove"}}}
                 = 1 .. M
            /\ Len(EventsOf("remove")) = M)

\* C10: construction with workers < 1 fails with NotEnoughWorkers and leaves
\* no pool, so nothing is ever dequeued or spawned; construction with
\* workers >= 1 gives a pool with an empty queue and an empty in-flight set.
C10_Construction ==
    /\ [][pc = "new" =>
            IF ctorArg' < 1
            THEN pc' = "raised" /\ exc' = "NotEnoughWorkers"
            ELSE pc' = "ready" /\ workers' = ctorArg' /\ commands' = <<>> /\ pool' = {}]_vars
    /\ [](pc = "raised" => /\ ctorArg < 1
                           /\ head = 0 /\ log = <<>> /\ pool = {} /\ commands = <<>>)
    /\ []((pc # "new" /\ ctorArg < 1) => pc = "raised")

C10_Witness == pc = "raised" /\ ctorArg = 0 /\ exc = "NotEnoughWorkers"

\* C11: a spawn that fails ends the run at once: the command is gone from the
\* queue, the in-flight set is as it was, and nothing is admitted, polled or
\* reaped afterwards.
C11_SpawnFailureAborts ==
    /\ [][(exc' = "OSError" /\ exc # "OSError") =>
            /\ pc = "loop" /\ pc' = "aborted"
            /\ pool' = pool /\ procs' = procs
            /\ commands # <<>> /\ commands' = Tail(commands)
            /\ head' = head + 1
            /\ log' = Append(log, Event("spawnfail", head + 1, 0))]_vars
    /\ [][exc = "OSError" =>
            /\ pc' = "aborted" /\ exc' = "OSError"
            /\ pool' = pool /\ commands' = commands /\ log' = log
            /\ snapshot' = snapshot]_vars

C11_Witness ==
    /\ pc = "aborted" /\ exc = "OSError"
    /\ Cardinality(pool) >= 1 /\ \E p \in pool : procs[p].exited /\ procs[p].returncode = 0
    /\ commands # <<>>

\* C12: a callback that raises ends the run at once: the reporter is not
\* advanced for that handle, the handle is still in the in-flight set, and
\* nothing is polled or admitted afterwards.
C12_CallbackRaiseAborts ==
    /\ [][(exc' = "CallbackError" /\ exc # "CallbackError") =>
            /\ pc = "reap" /\ pc' = "aborted"
            /\ pool' = pool /\ procs' = procs /\ commands' = commands
            /\ \E pid \in snapshot :
                 /\ pid \in pool'
                 /\ snapshot' = snapshot \ {pid}
                 /\ log' = Append(log, Event("callback", procs[pid].idx, pid))]_vars
    /\ [][exc = "CallbackError" =>
            /\ pc' = "aborted" /\ exc' = "CallbackError"
            /\ pool' = pool /\ commands' = commands /\ log' = log
            /\ snapshot' = snapshot]_vars

C12_Witness ==
    /\ pc = "aborted" /\ exc = "CallbackError"
    /\ pbArg
    /\ log[Len(log)].ev = "callback" /\ log[Len(log)].pid \in pool
    /\ snapshot # {}
    /\ commands # <<>>

\* C13: next_command on an empty queue gives None in non-strict mode (nothing
\* raised, queue and in-flight set untouched, run goes to its idle wait) and
\* raises in strict mode; on a non-empty queue it takes the head off in both
\* modes and the count goes down by one.
C13_NextCommand ==
    [][(pc = "loop" /\ pc' # "loop"
        /\ Cardinality(pool) <= Min(Len(commands), workers)) =>
          IF commands = <<>>
          THEN IF debug
               THEN /\ pc' = "aborted" /\ exc' = "IndexError"
                    /\ commands' = commands /\ pool' = pool
               ELSE /\ pc' = "wait" /\ exc' = exc
                    /\ commands' = commands /\ pool' = pool /\ procs' = procs
                    /\ log' = log /\ keep_running' = keep_running
          ELSE /\ exc' # "IndexError"
               /\ commands' = Tail(commands)
               /\ Len(commands') = Len(commands) - 1
               /\ Len(log') = Len(log) + 1
               /\ log'[Len(log')].idx = head + 1
               /\ (log'[Len(log')].ev = "drop") <=> (Head(commands) = "")]_vars

C13_Witness ==
    /\ pc = "wait" /\ keep_running /\ ~debug
    /\ commands = <<>> /\ pool = {} /\ exc = "none"

\* The commands of the current run are all non-empty.
NonEmptyCommands == \A i \in 1 .. M : submitted[i] # ""

InRun == Running \/ pc \in {"done", "aborted"}

\* C14: an iteration that starts with a non-empty queue and fewer than N
\* processes in flight dequeues one command and spawns it.
C14_FreeSlotAdmits ==
    [][(pc = "loop" /\ pc' # "loop" /\ commands # <<>> /\ Cardinality(pool) < workers) =>
          /\ commands' = Tail(commands)
          /\ \/ /\ Cardinality(pool') = Cardinality(pool) + 1
                /\ log' = Append(log, Event("spawn", head + 1, FreshPid(pool)))
             \/ exc' = "OSError"]_vars

\* C15: in a run over M >= 1 non-empty commands next_command is never called
\* on an empty queue (the loop never takes the idle-wait-and-restart branch),
\* so the run never fails with the queue-exhausted error.
C15_NoPopOnEmptyQueue ==
    /\ []((InRun /\ M >= 1 /\ NonEmptyCommands) => exc # "IndexError")
    /\ [][(pc = "loop" /\ M >= 1 /\ NonEmptyCommands) =>
            /\ pc' # "wait"
            /\ pc' # "loop" => commands # <<>> \/ Cardinality(pool) > 0]_vars

C15_Witness ==
    /\ pc = "done" /\ debug
    /\ M >= 1 /\ NonEmptyCommands
    /\ workers > M

\* C16: the reap pass visits every key the in-flight set had when the pass
\* started exactly once: one key per iteration, a removal takes no other key
\* out of the pass, the pass ends only when no key is left, and no lookup or
\* removal fails.
C16_StableSnapshot ==
    /\ [][(pc # "reap" /\ pc' = "reap") => snapshot' = pool']_vars
    /\ [][(pc = "reap" /\ snapshot' # snapshot) =>
            \E pid \in snapshot :
               /\ snapshot' = snapshot \ {pid}
               /\ pool' \in {pool, pool \ {pid}}]_vars
    /\ [][(pc = "reap" /\ pc' = "wait") => snapshot = {}]_vars
    /\ [](pc = "reap" => snapshot \subseteq pool)
    /\ [](exc # "KeyError")

C16_Witness ==
    /\ pc = "reap" /\ snapshot # {}
    /\ Len(log) >= 2
    /\ log[Len(log)].ev = "remove"
    /\ log[Len(log) - 1].ev = "spawn"

\* C17: reap order is independent of admission order: whether a polled handle
\* is reaped depends on its own poll result alone, not on its place in the
\* submission order, so that with two workers and three commands a later
\* command is reaped while an earlier one still runs.
C17_ReapByCompletion ==
    [][\A pid \in Pids :
         (pc = "reap" /\ pid \in snapshot /\ pid \notin snapshot' /\ pc' = "reap")
         => ((pid \notin pool') <=> (procs[pid].exited /\ procs[pid].returncode >= 0))]_vars

C17_Witness ==
    /\ workers = 2 /\ M = 3
    /\ \E k \in 1 .. Len(log) :
         /\ log[k].ev = "callback"
         /\ \E p \in pool : procs[p].idx < log[k].idx /\ ~procs[p].exited

\* C18: every command taken from the queue is spawned in the same iteration;
\* only the Empty signal leads to the idle wait, so no command is dropped.
C18_NoCommandDropped ==
    /\ [](InRun => /\ EventsOf("drop") = <<>>
                   /\ head = Len(EventsOf("spawn")) + Len(EventsOf("spawnfail")))
    /\ [][(pc = "loop" /\ pc' = "wait") => commands = <<>>]_vars

\* C19: the in-flight set never holds more than N + 1 handles: a command is
\* admitted only when the in-flight count is <= min(remaining, N), and an
\* iteration admits at most one.
C19_AtMostNPlusOne ==
    /\ [](Cardinality(pool) <= workers + 1)
    /\ [][pool' # pool /\ Cardinality(pool') >= Cardinality(pool) =>
            /\ pc = "loop"
            /\ Cardinality(pool) <= Min(Len(commands), workers)
            /\ Cardinality(pool') = Cardinality(pool) + 1
            /\ Len(commands') = Len(commands) - 1]_vars

C19_Witness == InRun /\ Cardinality(pool) = workers + 1

\* C20: in a run over non-empty commands with no failed spawn and no raising
\* callback, queued + in flight + reaped = M at every iteration boundary, and
\* no command is in two of the three groups.
C20_Conservation ==
    (pc \in {"loop", "wait", "done"} /\ NonEmptyCommands /\ exc = "none") =>
        LET queued == (head + 1) .. M
            inflight == {procs[p].idx : p \in pool}
            removes == EventsOf("remove")
            reaped == {removes[k].idx : k \in 1 .. Len(removes)}
        IN  /\ Len(commands) + Cardinality(pool) + Len(removes) = M
            /\ Len(commands) = Cardinality(queued)
            /\ Cardinality(pool) = Cardinality(inflight)
            /\ Len(removes) = Cardinality(reaped)
            /\ queued \cap inflight = {}
            /\ queued \cap reaped = {}
            /\ inflight \cap reaped = {}
            /\ queued \cup inflight \cup reaped = 1 .. M

C20_Witness ==
    /\ pc = "wait" /\ NonEmptyCommands /\ exc = "none"
    /\ commands # <<>> /\ pool # {} /\ EventsOf("remove") # <<>>
====
